---- MODULE Spec2Model ----
(***************************************************************************)
(* A model of camerpi (src/src/astro/camerpi/camerpi.py): the capability   *)
(* parser _init_cameras, the default selection of camerpi_grp, the key     *)
(* lookup of the focus command, and the numeric derivations of the focus,  *)
(* still and timelapse commands.                                           *)
(*                                                                         *)
(* Report rows are modelled as sequences of tokens.  A token stands for a  *)
(* piece of text that one of the parser's regular expressions consumes:    *)
(*   camera      "<id> : <name> [<w>x<h>] (<path>)"                        *)
(*   mode        "[Modes: ]'S<bayer><depth>_<packing>' : "                 *)
(*   resolution  "<w>x<h> [<fps> fps - (<x>, <y>)/<w>x<h> crop]"           *)
(*   text        any other text (it starts none of the patterns)           *)
(* Python dicts are modelled as sequences of entries in insertion order;   *)
(* Python objects live in heaps and are referred to by index, so that two  *)
(* names bound to one dict see each other's insertions.  Attributes of     *)
(* cameras, modes and resolutions other than their keys are left out.      *)
(***************************************************************************)
EXTENDS Integers, Sequences, FiniteSets, TLC

(* ------------------------------ bounds --------------------------------- *)

\* rows of the report that one run of the parser reads
MaxRows == 5

\* largest camera id that a camera header of the report carries
MaxCameraId == 1

\* largest index that the -C, -M and -R options of focus are given
MaxIndex == 2

(* ------------------------------ tokens --------------------------------- *)

CameraTok(n) == [kind |-> "camera", id |-> n]

ModeTok == [kind |-> "mode", id |-> -1]

ResolutionTok == [kind |-> "resolution", id |-> -1]

TextTok == [kind |-> "text", id |-> -1]

\* the rows a report is made of: blank, decoration, camera headers, a camera
\* header followed by more text, a mode header, a mode header with a
\* resolution on the same line, a resolution
Rows ==
    {<<>>, <<TextTok>>, <<CameraTok(0), TextTok>>, <<ModeTok>>,
     <<ModeTok, ResolutionTok>>, <<ResolutionTok>>}
    \cup {<<CameraTok(n)>> : n \in 0..MaxCameraId}

(* ---------------------- keys, dicts and references --------------------- *)

\* f"C{n}", f"M{n}", f"R{n}"
Key(prefix, n) == [prefix |-> prefix, index |-> n]

\* a local name that no assignment has bound yet
Unbound == 0

\* d[k] = v on a dict held as a sequence of [key, ref] entries: an existing
\* key keeps its place and gets the new value, a new key goes last
DictSet(d, k, v) ==
    IF \E i \in 1..Len(d) : d[i].key = k
    THEN [i \in 1..Len(d) |-> IF d[i].key = k THEN [key |-> k, ref |-> v] ELSE d[i]]
    ELSE Append(d, [key |-> k, ref |-> v])

DictHas(d, k) == \E i \in 1..Len(d) : d[i].key = k

\* d[k] for a key that DictHas
DictGet(d, k) == d[CHOOSE i \in 1..Len(d) : d[i].key = k].ref

\* list(d.keys())
DictKeys(d) == [i \in 1..Len(d) |-> d[i].key]

(* ------------------------------ patterns ------------------------------- *)

\* actionable_re.match(row)
actionable_re(r) == Len(r) > 0 /\ r[1].kind \in {"camera", "mode", "resolution"}

\* the camera pattern without its $: text may follow the header
camera_re_unanchored(r) == Len(r) > 0 /\ r[1].kind = "camera"

\* camera_re.match(row): the pattern ends with $, so the header is the whole row
camera_re(r) == Len(r) = 1 /\ r[1].kind = "camera"

\* mode_re.match(row)
mode_re(r) == Len(r) > 0 /\ r[1].kind = "mode"

\* resolution_re.match(row)
resolution_re(r) == Len(r) > 0 /\ r[1].kind = "resolution"

VARIABLES
    pc,                           \* where the program is
    exception,                    \* the exception that ended it, or "none"
    message,                      \* what it echoed or raised last
    nrows,                        \* rows of the report read so far
    line,                         \* the row of the report read last
    row,                          \* the parser's loop variable, as the body left it
    cameras,                      \* dict: camera key -> camera object
    heap_cameras,                 \* camera objects: [key, modes]
    heap_modes,                   \* mode objects: [key, resolutions]
    camera_mode_index,
    camera_mode_resolution_index,
    camera_modes,                 \* the camera object whose "modes" it names
    camera_mode_resolutions,      \* the mode object whose "resolutions" it names
    config,                       \* the config dict, by option name
    args,                         \* the arguments of the command that ran
    result                        \* what the command computed

parser_vars ==
    <<nrows, line, row, cameras, heap_cameras, heap_modes, camera_mode_index,
      camera_mode_resolution_index, camera_modes, camera_mode_resolutions>>

vars == <<pc, exception, message, parser_vars, config, args, result>>

(* ----------------------------- optional ints --------------------------- *)

\* the value of an int option that was not given (click's default=None)
None == <<>>

Some(n) == <<n>>

\* Python's truth value of an optional int: None and 0 are both false
Truthy(o) == o # None /\ o[1] # 0

\* the result of a command that has not run
Nothing == [command |-> "none"]

(* ------------------------- _init_cameras ------------------------------- *)

Init ==
    /\ pc = "start"
    /\ exception = "none"
    /\ message = <<>>
    /\ nrows = 0
    /\ line = <<>>
    /\ row = <<>>
    /\ cameras = <<>>
    /\ heap_cameras = <<>>
    /\ heap_modes = <<>>
    /\ camera_mode_index = -1
    /\ camera_mode_resolution_index = -1
    /\ camera_modes = Unbound
    /\ camera_mode_resolutions = Unbound
    /\ config = <<>>
    /\ args = Nothing
    /\ result = Nothing

\* subprocess.run(["libcamera-still", "--list-cameras"]) and the check of its
\* return code
ListCameras(returncode) ==
    /\ pc = "start"
    /\ IF 0 # returncode
       THEN /\ pc' = "fault"
            /\ exception' = "RuntimeError"
            /\ message' = <<"libcamera-still failed", returncode>>
       ELSE /\ pc' = "parse"
            /\ UNCHANGED <<exception, message>>
    /\ UNCHANGED <<parser_vars, config, args, result>>

\* camera_mode_index += 1
NextModeIndex(i) == i + 1

\* camera_mode_resolution_index += 1
NextResolutionIndex(i) == i + 1

\* the row is left as it was read
StripMatch_keep(r) == r

\* row = row[len(ms.group(0)):]
StripMatch(r) == Tail(r)

\* a camera header that also restarts both counters
CameraRow_reset(r) ==
    LET camera_key == Key("C", r[1].id)
        ref == Len(heap_cameras) + 1
    IN  /\ heap_cameras' = Append(heap_cameras, [key |-> camera_key, modes |-> <<>>])
        /\ cameras' = DictSet(cameras, camera_key, ref)
        /\ camera_modes' = ref
        /\ row' = r
        /\ camera_mode_index' = -1
        /\ camera_mode_resolution_index' = -1
        /\ UNCHANGED <<pc, exception, message, heap_modes,
                       camera_mode_resolutions>>

\* the camera branch of the loop body: a new camera object with an empty
\* modes dict is stored under its key, and camera_modes names its modes
CameraRow(r) ==
    LET camera_key == Key("C", r[1].id)
        ref == Len(heap_cameras) + 1
    IN  /\ heap_cameras' = Append(heap_cameras, [key |-> camera_key, modes |-> <<>>])
        /\ cameras' = DictSet(cameras, camera_key, ref)
        /\ camera_modes' = ref
        /\ row' = r
        /\ UNCHANGED <<pc, exception, message, heap_modes, camera_mode_index,
                       camera_mode_resolution_index, camera_mode_resolutions>>

\* the mode branch followed by the resolution branch of the loop body.  A
\* read of an unbound local raises UnboundLocalError after the index was
\* incremented.
ModeResolutionRow(r) ==
    LET is_mode == mode_re(r)
        mode_index == IF is_mode THEN NextModeIndex(camera_mode_index)
                                 ELSE camera_mode_index
        mode_fault == is_mode /\ camera_modes = Unbound
        opened == is_mode /\ ~mode_fault
        mode_key == Key("M", mode_index)
        mode_ref == Len(heap_modes) + 1
        modes1 == IF opened
                  THEN Append(heap_modes, [key |-> mode_key, resolutions |-> <<>>])
                  ELSE heap_modes
        cameras1 == IF opened
                    THEN [heap_cameras EXCEPT ![camera_modes].modes =
                              DictSet(@, mode_key, mode_ref)]
                    ELSE heap_cameras
        resolutions1 == IF opened THEN mode_ref ELSE camera_mode_resolutions
        row1 == IF opened THEN StripMatch(r) ELSE r
        is_resolution == ~mode_fault /\ resolution_re(row1)
        resolution_index == IF is_resolution
                            THEN NextResolutionIndex(camera_mode_resolution_index)
                            ELSE camera_mode_resolution_index
        resolution_fault == is_resolution /\ resolutions1 = Unbound
        resolution_key == Key("R", resolution_index)
        modes2 == IF is_resolution /\ ~resolution_fault
                  THEN [modes1 EXCEPT ![resolutions1].resolutions =
                            DictSet(@, resolution_key, resolution_index)]
                  ELSE modes1
    IN  /\ camera_mode_index' = mode_index
        /\ camera_mode_resolution_index' = resolution_index
        /\ heap_modes' = modes2
        /\ heap_cameras' = cameras1
        /\ camera_mode_resolutions' = resolutions1
        /\ row' = row1
        /\ IF mode_fault \/ resolution_fault
           THEN pc' = "fault" /\ exception' = "UnboundLocalError"
           ELSE UNCHANGED <<pc, exception>>
        /\ UNCHANGED <<message, cameras, camera_modes>>

\* one iteration of the loop over the rows of the report
ParseRow(r) ==
    /\ pc = "parse"
    /\ nrows < MaxRows
    /\ nrows' = nrows + 1
    /\ line' = r
    /\ IF ~actionable_re(r)
       THEN /\ row' = r
            /\ UNCHANGED <<pc, exception, message, cameras, heap_cameras,
                           heap_modes, camera_mode_index,
                           camera_mode_resolution_index, camera_modes,
                           camera_mode_resolutions>>
       ELSE IF camera_re(r) THEN CameraRow(r) ELSE ModeResolutionRow(r)
    /\ UNCHANGED <<config, args, result>>

\* the report has no more rows: return cameras
ReturnCameras ==
    /\ pc = "parse"
    /\ pc' = "group"
    /\ UNCHANGED <<exception, message, parser_vars, config, args, result>>

(* ------------------------------ the tree ------------------------------- *)

\* cameras[k]
CameraOf(k) == heap_cameras[DictGet(cameras, k)]

\* the mode objects of a camera object, in insertion order
ModesOf(c) == [i \in 1..Len(c.modes) |-> heap_modes[c.modes[i].ref]]

\* the keys of the cameras of the tree, in insertion order
CameraKeys == DictKeys(cameras)

\* the mode keys found in the tree, camera by camera
RECURSIVE Flatten(_)
Flatten(ss) == IF ss = <<>> THEN <<>> ELSE Head(ss) \o Flatten(Tail(ss))

TreeModes ==
    Flatten([i \in 1..Len(cameras) |-> ModesOf(heap_cameras[cameras[i].ref])])

TreeModeKeys == [i \in 1..Len(TreeModes) |-> TreeModes[i].key]

TreeResolutionKeys ==
    Flatten([i \in 1..Len(TreeModes) |-> DictKeys(TreeModes[i].resolutions)])


(* ------------------------------ camerpi_grp ---------------------------- *)

\* list(d.keys())[-1], for a dict that is not empty
LastKey(d) == d[Len(d)].key

\* the defaults the group callback stores in config once the parser has
\* returned.  An empty dict makes [-1] raise IndexError: the first two
\* handlers echo and exit; the third formats config['default-resolution'],
\* which was never set, and the KeyError it raises is not handled.
GroupDefaults ==
    /\ pc = "group"
    /\ IF cameras = <<>>
       THEN /\ pc' = "exit"
            /\ message' = <<"no cameras found">>
            /\ UNCHANGED <<exception, config>>
       ELSE LET default_camera == CameraOf(LastKey(cameras))
                with_camera == [o \in {"default-camera"} |-> LastKey(cameras)]
            IN  IF default_camera.modes = <<>>
                THEN /\ pc' = "exit"
                     /\ message' = <<"no modes found for default camera">>
                     /\ config' = with_camera
                     /\ UNCHANGED exception
                ELSE LET default_mode ==
                             heap_modes[DictGet(default_camera.modes,
                                                LastKey(default_camera.modes))]
                         with_mode ==
                             [o \in {"default-camera", "default-mode"} |->
                                 IF o = "default-camera" THEN LastKey(cameras)
                                 ELSE LastKey(default_camera.modes)]
                     IN  IF default_mode.resolutions = <<>>
                         THEN /\ pc' = "fault"
                              /\ exception' = "KeyError"
                              /\ message' = <<"default-resolution">>
                              /\ config' = with_mode
                         ELSE /\ pc' = "command"
                              /\ config' =
                                   [o \in {"default-camera", "default-mode",
                                           "default-resolution"} |->
                                       IF o = "default-resolution"
                                       THEN LastKey(default_mode.resolutions)
                                       ELSE with_mode[o]]
                              /\ UNCHANGED <<exception, message>>
    /\ UNCHANGED <<parser_vars, args, result>>

(* ------------------------------ ISO to gain ---------------------------- *)

\* the quotient is not clamped from above
Gain_unclamped(iso) ==
    LET hundredths == iso
        atleast == IF hundredths > 100 THEN hundredths ELSE 100
    IN  atleast \div 100

\* int(min(max(iso / 100, 1), 144)): iso / 100 is a true division, the
\* quotient is clamped and int() then drops its fraction.  The quotient is
\* held in hundredths; a clamped quotient is positive, so int() is \div.
Gain(iso) ==
    LET hundredths == iso
        atleast == IF hundredths > 100 THEN hundredths ELSE 100
        atmost == IF 14400 < atleast THEN 14400 ELSE atleast
    IN  atmost \div 100

(* ------------------------------- strings ------------------------------- *)

\* Strings are sequences of one-character strings.

Digits == <<"0", "1", "2", "3", "4", "5", "6", "7", "8", "9">>

IsDigit(c) == \E d \in 1..10 : Digits[d] = c

DigitValue(c) == (CHOOSE d \in 1..10 : Digits[d] = c) - 1

\* the value of a run of decimal digits
RECURSIVE DigitsValue(_)
DigitsValue(ds) ==
    IF ds = <<>> THEN 0
    ELSE DigitsValue(SubSeq(ds, 1, Len(ds) - 1)) * 10 + DigitValue(ds[Len(ds)])

AllDigits(ds) == \A i \in 1..Len(ds) : IsDigit(ds[i])

\* str(n) for a natural number, and for an integer
RECURSIVE NatStr(_)
NatStr(n) ==
    IF n < 10 THEN <<Digits[n + 1]>>
    ELSE NatStr(n \div 10) \o <<Digits[(n % 10) + 1]>>

Str(n) == IF n < 0 THEN <<"-">> \o NatStr(-n) ELSE NatStr(n)

\* s.startswith(p), s.endswith(c), s[n:], s[:-1]
startswith(s, p) == Len(s) >= Len(p) /\ SubSeq(s, 1, Len(p)) = p

endswith(s, c) == Len(s) >= 1 /\ s[Len(s)] = c

SliceFrom(s, n) == SubSeq(s, n + 1, Len(s))

DropLast(s) == SubSeq(s, 1, Len(s) - 1)

\* an optional sign and what follows it
Sign(s) == IF s # <<>> /\ s[1] = "-" THEN -1 ELSE 1

Unsigned(s) == IF s # <<>> /\ s[1] \in {"-", "+"} THEN Tail(s) ELSE s

\* int(s): an optional sign and one or more digits, else ValueError.  (The
\* strings modelled hold no blanks and no underscores.)
PyInt(s) ==
    IF Unsigned(s) # <<>> /\ AllDigits(Unsigned(s))
    THEN [outcome |-> "ok", value |-> Sign(s) * DigitsValue(Unsigned(s))]
    ELSE [outcome |-> "ValueError", value |-> 0]

\* 10 ^ n
RECURSIVE Pow10(_)
Pow10(n) == IF n = 0 THEN 1 ELSE 10 * Pow10(n - 1)

\* float(s): an optional sign, digits, an optional point and digits, with a
\* digit somewhere, else ValueError.  The value is held in millionths.  (The
\* strings modelled hold no exponent and at most six decimals; the values
\* modelled are multiples of 1/4, which a double holds exactly.)
PyFloat(s) ==
    LET u == Unsigned(s)
        point == IF \E i \in 1..Len(u) : u[i] = "."
                 THEN CHOOSE i \in 1..Len(u) :
                          u[i] = "." /\ \A j \in 1..(i - 1) : u[j] # "."
                 ELSE Len(u) + 1
        whole == SubSeq(u, 1, point - 1)
        frac == SubSeq(u, point + 1, Len(u))
    IN  IF /\ AllDigits(whole)
           /\ AllDigits(frac)
           /\ Len(whole) + Len(frac) >= 1
           /\ Len(frac) <= 6
        THEN [outcome |-> "ok",
              value |-> Sign(s) * (DigitsValue(whole) * 1000000
                                   + DigitsValue(frac) * Pow10(6 - Len(frac)))]
        ELSE [outcome |-> "ValueError", value |-> 0]

(* ------------------------- exposure to shutter ------------------------- *)

\* a quotient with its fraction dropped, as int() drops it
TruncDiv(a, b) ==
    LET q == (IF a < 0 THEN -a ELSE a) \div (IF b < 0 THEN -b ELSE b)
    IN  IF (a < 0) = (b < 0) THEN q ELSE -q

\* the division is truncated before it is scaled
ReciprocalUs_early(n) ==
    IF n.outcome # "ok" THEN [outcome |-> n.outcome, us |-> 0]
    ELSE IF n.value = 0 THEN [outcome |-> "ZeroDivisionError", us |-> 0]
    ELSE [outcome |-> "ok", us |-> TruncDiv(1, n.value) * 1000000]

\* int(1.0/int(...) * 1_000_000), given what int(...) of the text came to.
\* The double product and 1000000/n have the same integer part for every n
\* the model draws.
ReciprocalUs(n) ==
    IF n.outcome # "ok" THEN [outcome |-> n.outcome, us |-> 0]
    ELSE IF n.value = 0 THEN [outcome |-> "ZeroDivisionError", us |-> 0]
    ELSE [outcome |-> "ok", us |-> TruncDiv(1000000, n.value)]

\* int(float(...) * 1_000_000), given what float(...) of the text came to
SecondsUs(f) ==
    IF f.outcome # "ok" THEN [outcome |-> f.outcome, us |-> 0]
    ELSE [outcome |-> "ok", us |-> f.value]

\* a plain number is taken as seconds
exposure_us_plain_seconds(exposure) ==
    IF startswith(exposure, <<"1", "/">>)
    THEN ReciprocalUs(PyInt(SliceFrom(exposure, 2)))
    ELSE IF endswith(exposure, "\"") \/ endswith(exposure, "s")
    THEN SecondsUs(PyFloat(DropLast(exposure)))
    ELSE SecondsUs(PyFloat(exposure))

\* exposure_us of camera_still_cmd
exposure_us(exposure) ==
    IF startswith(exposure, <<"1", "/">>)
    THEN ReciprocalUs(PyInt(SliceFrom(exposure, 2)))
    ELSE IF endswith(exposure, "\"") \/ endswith(exposure, "s")
    THEN SecondsUs(PyFloat(DropLast(exposure)))
    ELSE ReciprocalUs(PyInt(exposure))

\* timelapse_exposure_time_us of camera_timelapse_cmd
timelapse_exposure_time_us(timelapse_exposure_time) ==
    IF startswith(timelapse_exposure_time, <<"1", "/">>)
    THEN ReciprocalUs(PyInt(SliceFrom(timelapse_exposure_time, 2)))
    ELSE IF \/ endswith(timelapse_exposure_time, "\"")
            \/ endswith(timelapse_exposure_time, "s")
    THEN SecondsUs(PyFloat(DropLast(timelapse_exposure_time)))
    ELSE ReciprocalUs(PyInt(timelapse_exposure_time))

(* --------------------------- camera_still_cmd -------------------------- *)

\* the still command; still_timeout is in seconds
StillCmd(exposure, still_timeout, still_iso) ==
    /\ pc = "command"
    /\ args' = [command |-> "still", exposure |-> exposure,
                timeout |-> still_timeout, iso |-> still_iso]
    /\ LET shutter == exposure_us(exposure)
       IN  IF shutter.outcome # "ok"
           THEN /\ pc' = "fault"
                /\ exception' = shutter.outcome
                /\ UNCHANGED result
           ELSE /\ pc' = "done"
                /\ result' = [command |-> "still",
                              gain |-> Gain(still_iso),
                              timeout |-> still_timeout * 1000,
                              shutter |-> shutter.us]
                /\ UNCHANGED exception
    /\ UNCHANGED <<message, parser_vars, config>>

(* ------------------------- camera_timelapse_cmd ------------------------ *)

\* math.floor, for a divisor that is positive
FloorDiv(a, b) == a \div b

\* math.ceil of a / b, for a divisor that is positive
CeilDiv(a, b) == -((-a) \div b)

\* the timeout rounds the time of a frame down
timelapse_timeout_floor(timelapse_frames, exposure_time_us, timelapse_pause_time) ==
    (10 + timelapse_frames
          * FloorDiv(exposure_time_us + timelapse_pause_time * 1000, 1000000))
    * 1000

\* timelapse_exposure_time = timelapse_exposure_time_us / 1000000.0 and
\* timelapse_timeout.  The pause is held in thousandths of a second; the
\* pauses modelled are multiples of 1/4 s, so the double sum is on the same
\* side of every integer as the sum of the two numbers.
timelapse_timeout(timelapse_frames, exposure_time_us, timelapse_pause_time) ==
    (10 + timelapse_frames
          * CeilDiv(exposure_time_us + timelapse_pause_time * 1000, 1000000))
    * 1000

\* max(a, b)
Max(a, b) == IF b > a THEN b ELSE a

\* the timelapse command; timelapse_pause_time is in thousandths of a second
TimelapseCmd(timelapse_frames, timelapse_iso, timelapse_exposure_time, timelapse_pause_time, timelapse_frame_start) ==
    /\ pc = "command"
    /\ args' = [command |-> "timelapse", frames |-> timelapse_frames,
                iso |-> timelapse_iso, exposure |-> timelapse_exposure_time,
                pause |-> timelapse_pause_time,
                frame_start |-> timelapse_frame_start]
    /\ LET shutter == timelapse_exposure_time_us(timelapse_exposure_time)
       IN  IF shutter.outcome # "ok"
           THEN /\ pc' = "fault"
                /\ exception' = shutter.outcome
                /\ UNCHANGED result
           ELSE /\ pc' = "done"
                /\ result' =
                     [command |-> "timelapse",
                      gain |-> Gain(timelapse_iso),
                      frames |-> Max(timelapse_frames, 1),
                      framestart |-> Max(timelapse_frame_start, 1),
                      timelapse |-> Max(0, timelapse_pause_time),
                      shutter |-> shutter.us,
                      timeout |-> timelapse_timeout(Max(timelapse_frames, 1),
                                                    shutter.us,
                                                    timelapse_pause_time)]
                /\ UNCHANGED exception
    /\ UNCHANGED <<message, parser_vars, config>>

(* ---------------------------- camera_focus_cmd ------------------------- *)

\* f"C{camera_index}" if camera_index else config['default-camera'], and
\* the same expression for the mode and the resolution
KeyOrDefault(prefix, index, option) ==
    IF Truthy(index) THEN Key(prefix, index[1]) ELSE config[option]

\* a focus command that takes the mode inserted last into the camera when
\* the mode key is not in it
FocusCmd_fallback(camera_index, mode_index, resolution_index, focus_iso) ==
    /\ pc = "command"
    /\ args' = [command |-> "focus", camera_index |-> camera_index,
                mode_index |-> mode_index,
                resolution_index |-> resolution_index, iso |-> focus_iso]
    /\ LET camera_key == KeyOrDefault("C", camera_index, "default-camera")
           asked_mode_key == KeyOrDefault("M", mode_index, "default-mode")
           resolution_key ==
               KeyOrDefault("R", resolution_index, "default-resolution")
       IN  IF ~DictHas(cameras, camera_key)
           THEN /\ pc' = "fault"
                /\ exception' = "RuntimeError"
                /\ message' = <<"camera", camera_key>>
                /\ UNCHANGED result
           ELSE LET focus_camera == CameraOf(camera_key)
                    mode_key ==
                        IF /\ ~DictHas(focus_camera.modes, asked_mode_key)
                           /\ focus_camera.modes # <<>>
                        THEN LastKey(focus_camera.modes)
                        ELSE asked_mode_key
                IN  IF ~DictHas(focus_camera.modes, mode_key)
                    THEN /\ pc' = "fault"
                         /\ exception' = "RuntimeError"
                         /\ message' = <<"mode", mode_key>>
                         /\ UNCHANGED result
                    ELSE LET focus_mode ==
                                 heap_modes[DictGet(focus_camera.modes, mode_key)]
                         IN  IF ~DictHas(focus_mode.resolutions, resolution_key)
                             THEN /\ pc' = "fault"
                                  /\ exception' = "RuntimeError"
                                  /\ message' = <<"resolution", resolution_key>>
                                  /\ UNCHANGED result
                             ELSE /\ pc' = "done"
                                  /\ result' =
                                       [command |-> "focus",
                                        camera |-> camera_key,
                                        mode |-> mode_key,
                                        resolution |-> resolution_key,
                                        gain |-> Gain(focus_iso)]
                                  /\ UNCHANGED <<exception, message>>
    /\ UNCHANGED <<parser_vars, config>>

\* the focus command, after the group callback has stored the defaults
FocusCmd(camera_index, mode_index, resolution_index, focus_iso) ==
    /\ pc = "command"
    /\ args' = [command |-> "focus", camera_index |-> camera_index,
                mode_index |-> mode_index,
                resolution_index |-> resolution_index, iso |-> focus_iso]
    /\ LET camera_key == KeyOrDefault("C", camera_index, "default-camera")
           mode_key == KeyOrDefault("M", mode_index, "default-mode")
           resolution_key ==
               KeyOrDefault("R", resolution_index, "default-resolution")
       IN  IF ~DictHas(cameras, camera_key)
           THEN /\ pc' = "fault"
                /\ exception' = "RuntimeError"
                /\ message' = <<"camera", camera_key>>
                /\ UNCHANGED result
           ELSE LET focus_camera == CameraOf(camera_key)
                IN  IF ~DictHas(focus_camera.modes, mode_key)
                    THEN /\ pc' = "fault"
                         /\ exception' = "RuntimeError"
                         /\ message' = <<"mode", mode_key>>
                         /\ UNCHANGED result
                    ELSE LET focus_mode ==
                                 heap_modes[DictGet(focus_camera.modes, mode_key)]
                         IN  IF ~DictHas(focus_mode.resolutions, resolution_key)
                             THEN /\ pc' = "fault"
                                  /\ exception' = "RuntimeError"
                                  /\ message' = <<"resolution", resolution_key>>
                                  /\ UNCHANGED result
                             ELSE /\ pc' = "done"
                                  /\ result' =
                                       [command |-> "focus",
                                        camera |-> camera_key,
                                        mode |-> mode_key,
                                        resolution |-> resolution_key,
                                        gain |-> Gain(focus_iso)]
                                  /\ UNCHANGED <<exception, message>>
    /\ UNCHANGED <<parser_vars, config>>

(* --------------------------- the specification ------------------------- *)

\* the indexes the -C, -M and -R options are given
Indexes == {None} \cup {Some(n) : n \in 0..MaxIndex}

\* the ISO value the focus command is given here: the default of --iso
FocusIsos == {4800}

Next ==
    \/ \E returncode \in {0, 1} : ListCameras(returncode)
    \/ \E r \in Rows : ParseRow(r)
    \/ ReturnCameras
    \/ GroupDefaults
    \/ /\ pc = "command"
       /\ \E ci \in Indexes, mi \in Indexes, ri \in Indexes, iso \in FocusIsos :
              FocusCmd(ci, mi, ri, iso)

Spec == Init /\ [][Next]_vars


(* ------------------ the specification of the derivations -------------- *)

\* largest N of the exposures "N" and "1/N"
MaxReciprocal == 12

\* the ISO values run in steps of 50 up to 50 * MaxIsoStep
MaxIsoStep == 6

\* largest frame count and frame start of the run of small ones
MaxFrames == 2

\* the pauses run in quarters of a second up to MaxPauseQuarters of them,
\* on both sides of zero
MaxPauseQuarters == 6

Reciprocals == (-2..MaxReciprocal) \cup {500}

Exposures ==
    {Str(n) : n \in Reciprocals}
    \cup {<<"1", "/">> \o Str(n) : n \in Reciprocals}
    \cup {<<"2", "\"">>, <<"2", "s">>, <<"0", ".", "5", "s">>,
          <<"1", ".", "5", "s">>, <<".", "2", "5", "\"">>, <<"-", "1", "s">>}
    \cup {<<>>, <<"s">>, <<"1", "/">>, <<"a">>, <<"0", ".", "5">>,
          <<"1", "/", "2", "s">>}

Isos == {50 * k : k \in -2..MaxIsoStep} \cup {4800, 14400, 14450, 20000}

FrameCounts == (-1..MaxFrames) \cup {10}

FrameStarts == {0, MaxFrames + 1}

Pauses == {250 * k : k \in -MaxPauseQuarters..MaxPauseQuarters}

StillTimeouts == {0, 5}

\* the state the group callback leaves for the report
\*     0 : imx477 [4056x3040] (/base/soc/i2c0mux/i2c@1/imx477@1a)
\*     Modes: 'SRGGB10_CSI2P' : 1332x990 [120.05 fps - (696, 528)/2664x1980 crop]
InitParams ==
    /\ pc = "command"
    /\ exception = "none"
    /\ message = <<>>
    /\ nrows = 2
    /\ line = <<ModeTok, ResolutionTok>>
    /\ row = <<ResolutionTok>>
    /\ cameras = <<[key |-> Key("C", 0), ref |-> 1]>>
    /\ heap_cameras =
           <<[key |-> Key("C", 0), modes |-> <<[key |-> Key("M", 0), ref |-> 1]>>]>>
    /\ heap_modes =
           <<[key |-> Key("M", 0),
              resolutions |-> <<[key |-> Key("R", 0), ref |-> 0]>>]>>
    /\ camera_mode_index = 0
    /\ camera_mode_resolution_index = 0
    /\ camera_modes = 1
    /\ camera_mode_resolutions = 1
    /\ config = [o \in {"default-camera", "default-mode", "default-resolution"} |->
                    IF o = "default-camera" THEN Key("C", 0)
                    ELSE IF o = "default-mode" THEN Key("M", 0)
                    ELSE Key("R", 0)]
    /\ args = Nothing
    /\ result = Nothing

NextParams ==
    \/ /\ pc = "command"
       /\ \E iso \in Isos : FocusCmd(None, None, None, iso)
    \/ /\ pc = "command"
       /\ \E exposure \in Exposures, t \in StillTimeouts, iso \in Isos :
              StillCmd(exposure, t, iso)
    \/ /\ pc = "command"
       /\ \E frames \in FrameCounts, iso \in Isos, exposure \in Exposures,
             pause \in Pauses, start \in FrameStarts :
              TimelapseCmd(frames, iso, exposure, pause, start)

SpecParams == InitParams /\ [][NextParams]_vars

(* ------------------------- the capability parser ----------------------- *)

NoDuplicates(s) == \A i, j \in 1..Len(s) : i # j => s[i] # s[j]

\* the resolution keys of every mode object, mode by mode
HeapResolutionKeys ==
    Flatten([i \in 1..Len(heap_modes) |-> DictKeys(heap_modes[i].resolutions)])

\* the row read last is a mode header and no camera has been opened
OrphanMode == mode_re(line) /\ camera_modes = Unbound

\* the row read last starts with a resolution and no mode has been opened
OrphanResolution == resolution_re(line) /\ camera_mode_resolutions = Unbound

\* C1: a mode header read before any camera header, and a resolution read
\* before any mode header, is ignored: the parser raises nothing and no mode
\* object comes into being.
C1_OrphanRowsIgnored ==
    (OrphanMode \/ OrphanResolution) =>
        (exception = "none" /\ heap_modes = <<>>)

\* C2: a resolution row read while the camera opened last has no mode yet
\* (a camera header with no mode header after it) changes no mode object, so
\* it is not appended to a mode of an earlier camera.
C2_CameraHeaderClosesMode ==
    [][(/\ pc = "parse"
        /\ nrows' = nrows + 1
        /\ resolution_re(line')
        /\ camera_modes # Unbound
        /\ heap_cameras[camera_modes].modes = <<>>)
       => heap_modes' = heap_modes]_vars

\* C3: the k-th mode object created has key M<k>, the resolution keys in use
\* are R0..R<n-1> for the n resolutions stored, and no mode key and no
\* resolution key occurs twice in the tree, whichever cameras hold them.
C3_GlobalCounters ==
    /\ \A i \in 1..Len(heap_modes) : heap_modes[i].key = Key("M", i - 1)
    /\ NoDuplicates(HeapResolutionKeys)
    /\ \A i \in 1..Len(HeapResolutionKeys) :
           \E j \in 0..(Len(HeapResolutionKeys) - 1) :
               HeapResolutionKeys[i] = Key("R", j)
    /\ NoDuplicates(TreeModeKeys)
    /\ NoDuplicates(TreeResolutionKeys)

\* two cameras of the tree hold a mode with a resolution each
C3_Witness ==
    /\ pc = "group"
    /\ Len(cameras) = 2
    /\ \A i \in 1..2 :
           /\ heap_cameras[cameras[i].ref].modes # <<>>
           /\ \A m \in 1..Len(ModesOf(heap_cameras[cameras[i].ref])) :
                  ModesOf(heap_cameras[cameras[i].ref])[m].resolutions # <<>>

\* C4: a row that holds a mode header followed by a resolution, read while a
\* camera is open, creates one mode object under that camera, stores the
\* resolution in it and in no older mode, and advances both counters by one.
C4_ModeAndResolutionOnOneRow ==
    [][(/\ pc = "parse"
        /\ nrows' = nrows + 1
        /\ mode_re(line')
        /\ resolution_re(Tail(line'))
        /\ camera_modes # Unbound)
       => /\ pc' = "parse"
          /\ camera_mode_index' = camera_mode_index + 1
          /\ camera_mode_resolution_index' = camera_mode_resolution_index + 1
          /\ Len(heap_modes') = Len(heap_modes) + 1
          /\ \A i \in 1..Len(heap_modes) : heap_modes'[i] = heap_modes[i]
          /\ heap_modes'[Len(heap_modes')].key = Key("M", camera_mode_index')
          /\ DictKeys(heap_modes'[Len(heap_modes')].resolutions) =
                 <<Key("R", camera_mode_resolution_index')>>
          /\ LastKey(heap_cameras'[camera_modes].modes) =
                 Key("M", camera_mode_index')
          /\ DictGet(heap_cameras'[camera_modes].modes,
                     Key("M", camera_mode_index')) = Len(heap_modes')
          /\ camera_mode_resolutions' = Len(heap_modes')]_vars

\* a mode header with a resolution was read while another mode was open, and
\* the resolution is in the new mode
C4_Witness ==
    /\ pc = "parse"
    /\ mode_re(line)
    /\ resolution_re(Tail(line))
    /\ Len(heap_modes) >= 2
    /\ camera_mode_resolutions = Len(heap_modes)
    /\ DictKeys(heap_modes[Len(heap_modes)].resolutions) =
           <<Key("R", camera_mode_resolution_index)>>


(* ------------------------- the parameter resolver ---------------------- *)

\* round(a / b) for b > 0, a tie going to the even neighbour
RoundDiv(a, b) ==
    LET q == a \div b
        r == a - q * b
    IN  IF 2 * r < b THEN q
        ELSE IF 2 * r > b THEN q + 1
        ELSE IF q % 2 = 0 THEN q ELSE q + 1

Clamp(x, lo, hi) == IF x < lo THEN lo ELSE IF x > hi THEN hi ELSE x

\* the still or the timelapse command has run
Shot == args.command \in {"still", "timelapse"}

\* C5 as stated: for N > 0 the exposure "1/N" gives round(1000000 / N)
\* microseconds, in the still and in the timelapse command.
C5_ReciprocalRounded ==
    \A n \in Reciprocals :
        (n > 0 /\ Shot /\ args.exposure = <<"1", "/">> \o Str(n))
        => (pc = "done" /\ result.shutter = RoundDiv(1000000, n))

\* C5 as amended: for N > 0 the exposure "1/N" gives 1000000 / N microseconds
\* with the fraction dropped, in the still and in the timelapse command, and
\* "1/500" gives 2000.
C5_ReciprocalTruncated ==
    /\ \A n \in Reciprocals :
           (n > 0 /\ Shot /\ args.exposure = <<"1", "/">> \o Str(n))
           => (pc = "done" /\ result.shutter = 1000000 \div n)
    /\ (Shot /\ args.exposure = <<"1", "/", "5", "0", "0">>)
       => (pc = "done" /\ result.shutter = 2000)

\* a still of 1/6 s, where rounding and dropping the fraction differ
C5_Witness ==
    /\ pc = "done"
    /\ args.command = "still"
    /\ args.exposure = <<"1", "/", "6">>
    /\ result.shutter = 166666

C7_ZeroIsInvalidFormat ==
    (Shot /\ args.exposure \in {<<"0">>, <<"1", "/", "0">>})
    => (pc = "fault" /\ exception = "ValueError" /\ result = Nothing)

\* C8 as stated: the gain is round(iso / 100) clamped to 1..144.
C8_GainRounded ==
    (pc = "done" /\ args.command \in {"focus", "still", "timelapse"})
    => /\ result.gain = Clamp(RoundDiv(args.iso, 100), 1, 144)
       /\ result.gain \in 1..144

\* C8 as amended: the gain is iso / 100 clamped to 1..144 with its fraction
\* dropped after the clamping, which is floor(iso / 100) clamped to 1..144;
\* it is an integer in 1..144, and iso 50, 4800 and 20000 give 1, 48 and 144.
C8_GainTruncated ==
    (pc = "done" /\ args.command \in {"focus", "still", "timelapse"})
    => /\ result.gain = Clamp(args.iso \div 100, 1, 144)
       /\ result.gain \in 1..144
       /\ args.iso = 50 => result.gain = 1
       /\ args.iso = 4800 => result.gain = 48
       /\ args.iso = 20000 => result.gain = 144

\* a timelapse at ISO 150, where rounding first and clamping first differ
C8_Witness ==
    /\ pc = "done"
    /\ args.command = "timelapse"
    /\ args.iso = 150
    /\ result.gain = 1

\* C9: the timelapse timeout is (10 + frames * c) * 1000, where frames is the
\* frame count asked for or 1 if that is less, and c is the least integer not
\* below the shutter microseconds taken as seconds plus the pause asked for;
\* 10 frames of "1/2" with a pause of 0.5 s give 20000.
C9_TimelapseTimeout ==
    (pc = "done" /\ args.command = "timelapse")
    => /\ \E c \in -10..10 :
              /\ c * 1000000 >= result.shutter + args.pause * 1000
              /\ (c - 1) * 1000000 < result.shutter + args.pause * 1000
              /\ result.timeout =
                     (10 + (IF args.frames < 1 THEN 1 ELSE args.frames) * c) * 1000
       /\ (args.frames = 10 /\ args.exposure = <<"1", "/", "2">> /\ args.pause = 500)
          => result.timeout = 20000

\* 10 frames of 1/2 s with a pause of 0.5 s
C9_Witness ==
    /\ pc = "done"
    /\ args.command = "timelapse"
    /\ args.frames = 10
    /\ args.exposure = <<"1", "/", "2">>
    /\ args.pause = 500
    /\ result.timeout = 20000

(* --------------------------- the selection ----------------------------- *)

\* C10: when focus is given a camera index whose camera is in the tree and
\* no mode index, it selects that camera and the mode inserted last into it
\* (if it has one), and when it is given no resolution index either, the
\* resolution inserted last into that mode.
C10_DefaultsFollowSelection ==
    (/\ args.command = "focus"
     /\ args.camera_index # None
     /\ args.mode_index = None
     /\ DictHas(cameras, Key("C", args.camera_index[1]))
     /\ CameraOf(Key("C", args.camera_index[1])).modes # <<>>)
    => LET chosen == CameraOf(Key("C", args.camera_index[1]))
           last_mode == heap_modes[DictGet(chosen.modes, LastKey(chosen.modes))]
       IN  /\ ~(pc = "fault" /\ message[1] \in {"camera", "mode"})
           /\ pc = "done" =>
                  /\ result.camera = chosen.key
                  /\ result.mode = LastKey(chosen.modes)
                  /\ args.resolution_index = None =>
                         result.resolution = LastKey(last_mode.resolutions)


\* C11: a key that focus looks up and that is not in the tree at its level
\* ends the command in a RuntimeError whose message names that level and
\* that key; nothing is selected, and no other exception ends the command.
C11_LookupFailsAtItsLevel ==
    args.command = "focus"
    => LET camera_key == KeyOrDefault("C", args.camera_index, "default-camera")
           mode_key == KeyOrDefault("M", args.mode_index, "default-mode")
           resolution_key ==
               KeyOrDefault("R", args.resolution_index, "default-resolution")
           has_camera == DictHas(cameras, camera_key)
           has_mode == has_camera /\ DictHas(CameraOf(camera_key).modes, mode_key)
           has_resolution ==
               /\ has_mode
               /\ DictHas(heap_modes[DictGet(CameraOf(camera_key).modes,
                                             mode_key)].resolutions,
                          resolution_key)
           not_found(level, key) ==
               /\ pc = "fault"
               /\ exception = "RuntimeError"
               /\ message = <<level, key>>
               /\ result = Nothing
       IN  /\ exception \in {"none", "RuntimeError"}
           /\ ~has_camera => not_found("camera", camera_key)
           /\ (has_camera /\ ~has_mode) => not_found("mode", mode_key)
           /\ (has_mode /\ ~has_resolution) =>
                  not_found("resolution", resolution_key)
           /\ has_resolution => pc = "done"

\* mode M2 was asked of a camera that holds other modes only
C11_Witness ==
    /\ pc = "fault"
    /\ args.command = "focus"
    /\ args.mode_index = Some(2)
    /\ message = <<"mode", Key("M", 2)>>
    /\ Len(CameraOf(KeyOrDefault("C", args.camera_index, "default-camera")).modes) >= 2


\* C12: when the mode chosen as default has no resolutions, the group
\* callback reports that nothing was found and exits; no exception ends it.
C12_EmptyDefaultModeExits ==
    (/\ pc \in {"command", "exit", "fault"}
     /\ args = Nothing
     /\ "default-mode" \in DOMAIN config
     /\ "default-resolution" \notin DOMAIN config)
    => (pc = "exit" /\ exception = "none")

(* --------------------------- the camera ids ---------------------------- *)

\* C13: every camera header read has a camera of its own in the tree, and
\* the cameras of the tree, in insertion order, have strictly increasing ids.
C13_CameraIdsIncrease ==
    /\ Len(cameras) = Len(heap_cameras)
    /\ \A i, j \in 1..Len(cameras) :
           i < j => cameras[i].key.index < cameras[j].key.index


(* ------------------------- rows of no pattern -------------------------- *)

\* a row that none of the three patterns matches: a blank row, a row of
\* other text, a camera header with text after it
NoPattern(r) ==
    \/ Len(r) = 0
    \/ r[1].kind = "text"
    \/ (r[1].kind = "camera" /\ Len(r) > 1)

\* C14: reading a row that matches none of the three patterns leaves the
\* tree, the open camera, the open mode and both counters as they were, and
\* the parser goes on.
C14_UnmatchedRowSkipped ==
    [][(pc = "parse" /\ nrows' = nrows + 1 /\ NoPattern(line'))
       => /\ pc' = "parse"
          /\ UNCHANGED <<exception, cameras, heap_cameras, heap_modes,
                         camera_mode_index, camera_mode_resolution_index,
                         camera_modes, camera_mode_resolutions>>]_vars

\* a camera header with text after it was read while a mode was open
C14_Witness ==
    /\ pc = "parse"
    /\ line = <<CameraTok(0), TextTok>>
    /\ camera_mode_resolutions # Unbound
    /\ HeapResolutionKeys # <<>>

(* ------------------------- indexes and keys ---------------------------- *)

\* the index given at a level decides the key: what was selected at that
\* level, or what was reported as not found there, is the key of the index
IndexDecidesKey(index, prefix, level, field) ==
    index # None
    => /\ pc = "done" => result[field] = Key(prefix, index[1])
       /\ (pc = "fault" /\ message[1] = level)
          => message[2] = Key(prefix, index[1])

\* C15: an index given to focus with -C, -M or -R, 0 included, is looked up
\* under the key C<n>, M<n> or R<n>, not under the default key.
C15_GivenIndexIsLookedUp ==
    args.command = "focus"
    => /\ IndexDecidesKey(args.camera_index, "C", "camera", "camera")
       /\ IndexDecidesKey(args.mode_index, "M", "mode", "mode")
       /\ IndexDecidesKey(args.resolution_index, "R", "resolution", "resolution")

(* ------------------------- the timeout margin -------------------------- *)

\* C16: for every frame count, every pause and every exposure that resolves
\* to a positive shutter time, the timelapse timeout is at least 10000 ms.
C16_TimeoutAtLeastMargin ==
    (pc = "done" /\ args.command = "timelapse" /\ result.shutter > 0)
    => result.timeout >= 10000


====
